---- MODULE Spec2Model ----
(***************************************************************************)
(* CLStarter: class-incremental learning.                                  *)
(*   Spec       the iCaRL model state (src/model/iCaRL.py): the scoped     *)
(*              operations set_new_task and use_previous_model, training.  *)
(*   SpecPreds  nearest-prototype inference iCaRL.get_preds on a model     *)
(*              whose exemplar_means a caller has filled.                  *)
(*   SpecTasks  the task sequence generator get_cifar100_tasks             *)
(*              (src/utils/data/cifar100.py).                              *)
(*   SpecMain   the orchestration loop, the task learner and the           *)
(*              continual-learning evaluator (src/src/main.py).            *)
(*   SpecInfer  the scoped operations of iCaRL with the prototype          *)
(*              classifier (exemplar_means, get_preds), without training.  *)
(*   SpecSinks  SpecMain with writer and logger calls that can raise.      *)
(* Objects (feature extractors, heads) live in two heaps and are named by  *)
(* their index; a parameter value is a pair <<stamp, row>>: every write    *)
(* (random initialisation, gradient step) produces values never seen       *)
(* before, so that two parameters are equal only if one was copied from    *)
(* the other.                                                              *)
(***************************************************************************)
EXTENDS Integers, Sequences, FiniteSets, TLC

VARIABLES
    \* ---- iCaRL (src/model/iCaRL.py) ----
    feature_extractor,          \* self.feature_extractor: an extractor object
    previous_feature_extractor, \* self.previous_feature_extractor, or None
    weight_vectors,             \* self.weight_vectors: list of head objects
    current_weight_vectors,     \* self.current_weight_vectors, or None
    current_task,               \* self.current_task, or NoTask
    learned_classes,            \* self.learned_classes
    exemplar_means,             \* self.exemplar_means: dict in insertion order
    feParams,                   \* heap: extractor object -> its parameters
    headRows,                   \* heap: head object -> its weight rows
    scopes,                     \* open context managers, innermost last
    stamp,                      \* number of parameter writes so far
    last,                       \* the operation that ran last, with the state it found
    entered,                    \* history: the tasks whose set_new_task appended a head
    snapAtEntry,                \* history: live extractor's parameters at the last set_new_task
    snapDirect,                 \* history: the snapshot object itself was trained (swapped in)
    \* ---- get_cifar100_tasks (src/utils/data/cifar100.py) ----
    cls_names,                  \* the caller's class list (shuffled in place)
    task_num,                   \* argument task_num
    fixed_tasks,                \* argument fixed_tasks
    tasks,                      \* the returned list of groups
    gen_status,                 \* "call" | "returned" | "raised"
    calls,                      \* history: number of calls made
    first_fixed,                \* history: the first fixed_tasks=True call and its result
    \* ---- main.py ----
    pc,                         \* position of continual_learning's loop
    task_id,                    \* loop variable task_id
    n_tasks,                    \* dataset_getter.task_num
    learned_tasks,              \* learned_tasks (and learned_task_loaders)
    num_task_learned,           \* closure variable of get_task_learner
    hparams_dict,               \* module-level hparams_dict: set of written keys
    hparams_writes,             \* history: the calls (by number) that wrote hparams_dict
    learner_calls,              \* history: number of task_learner calls started
    cl_matrix,                  \* closure variable of the evaluator
    test_acc,                   \* what test_epoch measures for each learned task, this step
    ret,                        \* the evaluator's return value
    metrics_dict,               \* module-level metrics_dict
    sink_failed                 \* history: a writer or logger call has raised

icarlVars == <<feature_extractor, previous_feature_extractor, weight_vectors,
               current_weight_vectors, current_task, learned_classes,
               exemplar_means, feParams,
               headRows, scopes, stamp, last, entered, snapAtEntry, snapDirect>>
genVars == <<cls_names, task_num, fixed_tasks, tasks, gen_status, calls, first_fixed>>
mainVars == <<pc, task_id, n_tasks, learned_tasks, num_task_learned, hparams_dict,
              hparams_writes, learner_calls, cl_matrix, test_acc, ret, metrics_dict,
              sink_failed>>
vars == <<icarlVars, genVars, mainVars>>

----------------------------------------------------------------------------
\* Bounds of the model.
NumClasses == 2
MaxTaskLen == 2
MaxTasks == 2
MaxTrain == 1
MaxCoord == 2
MaxProtos == 2
MaxUniverse == 4
MaxTaskNum == 4
MaxCalls == 2
MaxAcc == 1

\* Python's None for an object reference (objects are numbered from 1).
None == 0
\* A head (nn.Linear) the caller built and passes to use_previous_model; it is
\* not in weight_vectors and its weights are the caller's, not tracked here.
ExternalHead == -1
\* current_task before any task was set.
NoTask == <<0>>
\* No value was returned (a returned index is 0 or more).
NoPred == -1

Min(a, b) == IF a < b THEN a ELSE b

Range(s) == {s[i] : i \in 1..Len(s)}

NoDuplicates(s) == \A i, j \in 1..Len(s) : i # j => s[i] # s[j]

\* A Task (utils.annotation.Task): a list of distinct class names; the tasks
\* drawn here are the slices of the class list of 1..MaxTaskLen classes.
Classes == 1..NumClasses
Tasks == {[i \in 1..n |-> c + i - 1] : <<c, n>> \in
              {<<c, n>> \in Classes \X (1..MaxTaskLen) : c + n - 1 <= NumClasses}}

RECURSIVE SumLen(_, _)
\* Total number of classes in the first n tasks of ts.
SumLen(ts, n) == IF n = 0 THEN 0 ELSE SumLen(ts, n - 1) + Len(ts[n])

----------------------------------------------------------------------------
\* iCaRL (src/model/iCaRL.py)

\* An open context manager: the generator frame suspended at its yield.
\*   kind "task": set_new_task, holding its argument task;
\*   kind "prev": use_previous_model, holding its two locals.
\* pre_* record the state the scope found when it was entered.
Frame(kind, task, cfe, cwv, pre_fe, pre_wv, pre_learned) ==
    [kind |-> kind, task |-> task,
     current_feature_extractor |-> cfe, current_weight_vectors |-> cwv,
     pre_fe |-> pre_fe, pre_wv |-> pre_wv, pre_learned |-> pre_learned]

Top == scopes[Len(scopes)]
Pop(s) == SubSeq(s, 1, Len(s) - 1)

\* The record of the operation that ran last.
\* query and out are filled by get_preds: the embedding of the image and the
\* returned index.
Last(op, how, fe, wv, learned, task, rows) ==
    [op |-> op, how |-> how, fe |-> fe, wv |-> wv, learned |-> learned,
     task |-> task, rows |-> rows, query |-> <<>>, out |-> NoPred]

\* nn.Linear(out_features = n): n freshly initialised rows.
FreshRows(n, st) == [r \in 1..n |-> <<st, r>>]

\* out_features counts the new task's classes only.
HeadOutFeatures_NewOnly(task, learned) == Len(task)

\* out_features of the head set_new_task creates.
HeadOutFeatures(task, learned) == Len(task) + Len(learned)

\* The copy of the previous head's rows is left out.
CopyLeading_Skipped(dst, src, n) == [ok |-> TRUE, rows |-> dst]

\* dst.weight.data[:n, :] = src.weight.data[:, :]
\* The slice dst[:n] has Min(n, Len(dst)) rows; src must have as many rows, or
\* one row (broadcast); otherwise the assignment raises RuntimeError.
CopyLeading(dst, src, n) ==
    LET m == Min(n, Len(dst)) IN
    IF Len(src) = m
    THEN [ok |-> TRUE, rows |-> [r \in 1..Len(dst) |-> IF r <= m THEN src[r] ELSE dst[r]]]
    ELSE IF Len(src) = 1
    THEN [ok |-> TRUE, rows |-> [r \in 1..Len(dst) |-> IF r <= m THEN src[1] ELSE dst[r]]]
    ELSE [ok |-> FALSE, rows |-> dst]

\* The new head takes the place of the newest entry.
AppendHead_Replaces(wvs, head) ==
    IF Len(wvs) = 0 THEN <<head>> ELSE [wvs EXCEPT ![Len(wvs)] = head]

\* self.weight_vectors.append(self.current_weight_vectors)
AppendHead(wvs, head) == Append(wvs, head)

\* The snapshot is a second reference to the live extractor, not a copy.
SnapshotObject_Alias(fe, params) == fe

\* copy.deepcopy(self.feature_extractor): a new object of the heap.
SnapshotObject(fe, params) == Len(params) + 1

\* The commit runs after the yield without try/finally: skipped when the body raises.
CommitLearned_NoFinally(learned, task, how) ==
    IF how = "normal" THEN learned \o task ELSE learned

\* The commit assigns the task's classes instead of extending the list.
CommitLearned_Assigns(learned, task, how) == task

\* finally: self.learned_classes.extend(task)
CommitLearned(learned, task, how) == learned \o task

\* current_feature_extractor, current_weight_vectors = the active pair
SavedActive(fe, wv) == [fe |-> fe, wv |-> wv]

\* The restoration runs after the yield without try/finally.
UsePreviousFinally_NoFinally(frame, how, fe, wv) ==
    IF how = "normal"
    THEN [fe |-> frame.current_feature_extractor, wv |-> frame.current_weight_vectors]
    ELSE [fe |-> fe, wv |-> wv]

\* finally: the active pair after use_previous_model's restoration.
UsePreviousFinally(frame, how, fe, wv) ==
    [fe |-> frame.current_feature_extractor, wv |-> frame.current_weight_vectors]

HasTaskScope == \E i \in 1..Len(scopes) : scopes[i].kind = "task"
HasPrevScope == \E i \in 1..Len(scopes) : scopes[i].kind = "prev"

\* The extractor that is active outside every use_previous_model scope.
LiveFE ==
    IF \E i \in 1..Len(scopes) : scopes[i].kind = "prev"
    THEN LET i == CHOOSE k \in 1..Len(scopes) :
                    /\ scopes[k].kind = "prev"
                    /\ \A j \in 1..(k - 1) : scopes[j].kind # "prev"
         IN scopes[i].current_feature_extractor
    ELSE feature_extractor

InitICaRL ==
    /\ feature_extractor = 1
    /\ previous_feature_extractor = None
    /\ weight_vectors = <<>>
    /\ current_weight_vectors = None
    /\ current_task = NoTask
    /\ learned_classes = <<>>
    /\ exemplar_means = <<>>
    /\ feParams = << <<0, 0>> >>
    /\ headRows = <<>>
    /\ scopes = <<>>
    /\ stamp = 0
    /\ last = Last("init", "normal", None, None, <<>>, NoTask, <<>>)
    /\ entered = <<>>
    /\ snapAtEntry = <<0, 0>>
    /\ snapDirect = FALSE

\* with model.set_new_task(task): up to the yield. Tasks are begun one after
\* another and outside use_previous_model scopes (such a scope is opened inside
\* a task's scope or between tasks).
EnterSetNewTask(task) ==
    LET fresh == FreshRows(HeadOutFeatures(task, learned_classes), stamp + 1)
        hasPrev == Len(weight_vectors) # 0
        prevRows == IF hasPrev THEN headRows[weight_vectors[Len(weight_vectors)]] ELSE <<>>
        cp == IF hasPrev THEN CopyLeading(fresh, prevRows, Len(learned_classes))
              ELSE [ok |-> TRUE, rows |-> fresh]
        newHead == Len(headRows) + 1
        snap == SnapshotObject(feature_extractor, feParams)
        prevHead == IF hasPrev THEN weight_vectors[Len(weight_vectors)] ELSE None
        found(how) == Last("enter_task", how, feature_extractor, prevHead,
                           learned_classes, task, prevRows)
    IN
    /\ ~HasTaskScope
    /\ ~HasPrevScope
    /\ Len(headRows) < MaxTasks
    /\ current_task' = task
    /\ IF feature_extractor = None
       THEN \* self.feature_extractor.conv1: AttributeError
            /\ last' = found("raised")
            /\ UNCHANGED <<feature_extractor, previous_feature_extractor, weight_vectors,
                           current_weight_vectors, learned_classes, feParams, headRows,
                           scopes, stamp, entered, snapAtEntry, snapDirect>>
       ELSE /\ stamp' = stamp + 1
            /\ headRows' = Append(headRows, cp.rows)
            /\ current_weight_vectors' = newHead
            /\ IF cp.ok
               THEN /\ weight_vectors' = AppendHead(weight_vectors, newHead)
                    /\ previous_feature_extractor' = snap
                    /\ feParams' = IF snap > Len(feParams)
                                   THEN Append(feParams, feParams[feature_extractor])
                                   ELSE feParams
                    /\ scopes' = Append(scopes, Frame("task", task, None, None,
                                                       feature_extractor,
                                                       current_weight_vectors,
                                                       learned_classes))
                    /\ entered' = Append(entered, task)
                    /\ snapAtEntry' = feParams[feature_extractor]
                    /\ snapDirect' = FALSE
                    /\ last' = found("normal")
               ELSE \* the row copy raised: nothing was appended, nothing yielded
                    /\ last' = found("raised")
                    /\ UNCHANGED <<weight_vectors, previous_feature_extractor, feParams,
                                   scopes, entered, snapAtEntry, snapDirect>>
            /\ UNCHANGED <<feature_extractor, learned_classes>>
    /\ UNCHANGED exemplar_means
    /\ UNCHANGED <<genVars, mainVars>>

\* The end of a set_new_task scope: the body finished (how = "normal") or raised.
ExitSetNewTask(how) ==
    /\ Len(scopes) > 0
    /\ Top.kind = "task"
    /\ learned_classes' = CommitLearned(learned_classes, Top.task, how)
    /\ scopes' = Pop(scopes)
    /\ last' = Last("exit_task", how, Top.pre_fe, Top.pre_wv, Top.pre_learned,
                    Top.task, <<>>)
    /\ UNCHANGED <<feature_extractor, previous_feature_extractor, weight_vectors,
                   current_weight_vectors, current_task, feParams, headRows, stamp,
                   entered, snapAtEntry, snapDirect>>
    /\ UNCHANGED exemplar_means
    /\ UNCHANGED <<genVars, mainVars>>

\* The finally block also resets self.current_task.
UsePreviousUntouched_ClearsTask ==
    /\ current_task' = NoTask
    /\ UNCHANGED <<previous_feature_extractor, weight_vectors, learned_classes,
                   exemplar_means, feParams, headRows, stamp, entered, snapAtEntry,
                   snapDirect>>
    /\ UNCHANGED <<genVars, mainVars>>

\* What use_previous_model assigns nowhere: every attribute but
\* feature_extractor and current_weight_vectors.
UsePreviousUntouched ==
    /\ UNCHANGED <<previous_feature_extractor, weight_vectors, current_task,
                   learned_classes, exemplar_means, feParams, headRows, stamp,
                   entered, snapAtEntry, snapDirect>>
    /\ UNCHANGED <<genVars, mainVars>>

\* with model.use_previous_model(fe_arg, wv_arg): up to the yield, or, when
\* self.weight_vectors[-2] raises IndexError, through the finally block.
\* After an entry, last.fe and last.wv hold the two arguments.
EnterUsePrevious(fe_arg, wv_arg) ==
    LET saved == SavedActive(feature_extractor, current_weight_vectors)
        fe1 == IF fe_arg # None THEN fe_arg ELSE previous_feature_extractor
        ok == wv_arg # None \/ Len(weight_vectors) >= 2
        wv1 == IF wv_arg # None THEN wv_arg ELSE weight_vectors[Len(weight_vectors) - 1]
        frame == Frame("prev", NoTask, saved.fe, saved.wv,
                       feature_extractor, current_weight_vectors, learned_classes)
    IN
    /\ ~HasPrevScope
    /\ IF ok
       THEN /\ feature_extractor' = fe1
            /\ current_weight_vectors' = wv1
            /\ scopes' = Append(scopes, frame)
            /\ last' = Last("enter_prev", "normal", fe_arg, wv_arg, <<>>, NoTask, <<>>)
       ELSE LET r == UsePreviousFinally(frame, "swap_raised", fe1, current_weight_vectors)
            IN /\ feature_extractor' = r.fe
               /\ current_weight_vectors' = r.wv
               /\ scopes' = scopes
               /\ last' = Last("exit_prev", "swap_raised", feature_extractor,
                               current_weight_vectors, learned_classes, NoTask, <<>>)
    /\ UsePreviousUntouched

\* The end of a use_previous_model scope: the body finished or raised.
ExitUsePrevious(how) ==
    /\ Len(scopes) > 0
    /\ Top.kind = "prev"
    /\ LET r == UsePreviousFinally(Top, how, feature_extractor, current_weight_vectors)
       IN /\ feature_extractor' = r.fe
          /\ current_weight_vectors' = r.wv
    /\ scopes' = Pop(scopes)
    /\ last' = Last("exit_prev", how, Top.pre_fe, Top.pre_wv, Top.pre_learned,
                    NoTask, <<>>)
    /\ UsePreviousUntouched

\* The optimizer steps taken so far: every write but the creation of a head.
Trainings == stamp - Len(headRows)

\* One optimizer step on model.parameters(): the active extractor and the active
\* head receive gradients through forward() and are rewritten; a registered
\* module that took no part in forward() (the snapshot) has no gradient and is
\* skipped by SGD.
TrainStep ==
    /\ feature_extractor # None
    /\ current_weight_vectors # None
    /\ Trainings < MaxTrain
    /\ stamp' = stamp + 1
    /\ feParams' = [feParams EXCEPT ![feature_extractor] = <<stamp + 1, 0>>]
    /\ headRows' = IF current_weight_vectors = ExternalHead
                    THEN headRows
                    ELSE [headRows EXCEPT ![current_weight_vectors] =
                              FreshRows(Len(@), stamp + 1)]
    /\ snapDirect' = (snapDirect \/ (/\ feature_extractor # LiveFE
                                     /\ feature_extractor = previous_feature_extractor))
    /\ last' = Last("train", "normal", None, None, <<>>, NoTask, <<>>)
    /\ UNCHANGED <<feature_extractor, previous_feature_extractor, weight_vectors,
                   current_weight_vectors, current_task, learned_classes, scopes,
                   entered, snapAtEntry>>
    /\ UNCHANGED exemplar_means
    /\ UNCHANGED <<genVars, mainVars>>

----------------------------------------------------------------------------
\* Nearest-prototype inference: iCaRL.get_preds

\* feature_dim, the dimension of the prototype space.
Dim == 2
\* Embeddings and prototypes: vectors of small non-negative integers.
Vectors == [1..Dim -> 0..MaxCoord]

RECURSIVE DotUpTo(_, _, _)
DotUpTo(a, b, n) == IF n = 0 THEN 0 ELSE DotUpTo(a, b, n - 1) + a[n] * b[n]
\* The inner product of two vectors.
Dot(a, b) == DotUpTo(a, b, Dim)

\* The normalisation is left out: the embedding is used as it is.
L2Normalize_Skipped(f) == [vec |-> f, sq |-> 1]

\* features / features.norm(p=2, dim=1, keepdim=True): the vector vec / sqrt(sq).
\* For the zero embedding the division gives NaN in every coordinate (sq = 0).
L2Normalize(f) == [vec |-> f, sq |-> Dot(f, f)]

\* sqrt(s) * a < b, for integers s >= 1, a, b.
SqrtTimesLess(s, a, b) ==
    IF a >= 0
    THEN b > 0 /\ s * a * a < b * b
    ELSE b >= 0 \/ s * a * a > b * b

\* (u - x).norm() < (u - y).norm() for u = vec / sqrt(sq):
\*   |u - x|^2 - |u - y|^2 = (|x|^2 - |y|^2) - 2 vec.(x - y) / sqrt(sq)
NormLess(u, x, y) ==
    SqrtTimesLess(u.sq, Dot(x, x) - Dot(y, y), 2 * (Dot(u.vec, x) - Dot(u.vec, y)))

\* list(self.exemplar_means.values()), concatenated: the prototypes in
\* insertion order.
ClsMeans(means) == [i \in 1..Len(means) |-> means[i].mean]

RECURSIVE ArgMinUpTo(_, _, _)
\* pred.argmin over the first n distances: the first index (from 1) holding
\* the minimum.
ArgMinUpTo(u, protos, n) ==
    IF n <= 1 THEN 1
    ELSE LET best == ArgMinUpTo(u, protos, n - 1)
         IN IF NormLess(u, protos[n], protos[best]) THEN n ELSE best

\* The index (from 0) get_preds returns for an embedding f. With a zero
\* embedding every distance is NaN and argmin returns the first index.
get_preds(f, means) ==
    LET u == L2Normalize(f)
        protos == ClsMeans(means)
    IN IF u.sq = 0 THEN 0 ELSE ArgMinUpTo(u, protos, Len(protos)) - 1

\* An empty list is let through, as a batch without prototypes.
TorchCatRaises_Never(means) == FALSE

\* torch.cat raises RuntimeError for an empty list of tensors.
TorchCatRaises(means) == Len(means) = 0

\* model.get_preds(image), where f is the embedding the active extractor
\* produces for the image.
GetPreds(f) ==
    LET raised == feature_extractor = None \/ TorchCatRaises(exemplar_means)
        found == Last("get_preds", IF raised THEN "raised" ELSE "normal",
                      None, None, <<>>, NoTask, <<>>)
    IN
    /\ last' = [found EXCEPT !.query = f,
                             !.out = IF raised THEN NoPred
                                     ELSE get_preds(f, exemplar_means)]
    /\ UNCHANGED <<feature_extractor, previous_feature_extractor, weight_vectors,
                   current_weight_vectors, current_task, learned_classes,
                   exemplar_means, feParams, headRows, scopes, stamp, entered,
                   snapAtEntry, snapDirect>>
    /\ UNCHANGED <<genVars, mainVars>>

\* The prototype the demonstration stores for the i-th class of a task.
DemoMean(i) == [d \in 1..Dim |-> i]

\* d[k] = v on a dict kept in insertion order.
DictSet(d, k, v) ==
    IF \E i \in 1..Len(d) : d[i].cls = k
    THEN [i \in 1..Len(d) |-> IF d[i].cls = k THEN [cls |-> k, mean |-> v] ELSE d[i]]
    ELSE Append(d, [cls |-> k, mean |-> v])

RECURSIVE SetMeansUpTo(_, _, _)
\* The loop "for i, t_name in enumerate(t)" over the first n classes of t.
SetMeansUpTo(d, t, n) ==
    IF n = 0 THEN d
    ELSE DictSet(SetMeansUpTo(d, t, n - 1), t[n], DemoMean(n - 1))

\* Inside a set_new_task scope the caller stores one prototype per class of
\* the task.
SetExemplarMeans ==
    /\ Len(scopes) > 0
    /\ Top.kind = "task"
    /\ exemplar_means' = SetMeansUpTo(exemplar_means, Top.task, Len(Top.task))
    /\ last' = Last("set_means", "normal", None, None, <<>>, NoTask, <<>>)
    /\ UNCHANGED <<feature_extractor, previous_feature_extractor, weight_vectors,
                   current_weight_vectors, current_task, learned_classes, feParams,
                   headRows, scopes, stamp, entered, snapAtEntry, snapDirect>>
    /\ UNCHANGED <<genVars, mainVars>>

\* The prototype sets a caller has registered before inference: up to
\* MaxProtos classes, class i registered i-th.
PrototypeSets ==
    UNION {[1..n -> Vectors] : n \in 0..MaxProtos}

InitPreds ==
    /\ feature_extractor = 1
    /\ previous_feature_extractor = None
    /\ weight_vectors = <<>>
    /\ current_weight_vectors = None
    /\ current_task = NoTask
    /\ learned_classes = <<>>
    /\ \E ps \in PrototypeSets :
           exemplar_means = [i \in 1..Len(ps) |-> [cls |-> i, mean |-> ps[i]]]
    /\ feParams = << <<0, 0>> >>
    /\ headRows = <<>>
    /\ scopes = <<>>
    /\ stamp = 0
    /\ last = Last("init", "normal", None, None, <<>>, NoTask, <<>>)
    /\ entered = <<>>
    /\ snapAtEntry = <<0, 0>>
    /\ snapDirect = FALSE

\* The embeddings along one axis, of length 1.
UnitQueries == {f \in Vectors : Dot(f, f) = 1}

NextPreds == \E f \in Vectors : GetPreds(f)

Outcomes == {"normal", "raised"}

\* The extractor objects a caller can pass explicitly: those the model holds.
HeldExtractors == {feature_extractor, previous_feature_extractor} \ {None}

\* The explicit arguments drawn for use_previous_model: the held objects other
\* than the one the default stands for (passing that one is the same call as
\* leaving the argument out).
ExplicitExtractors == HeldExtractors \ {previous_feature_extractor}
ExplicitHeads ==
    Range(weight_vectors) \
        (IF Len(weight_vectors) >= 2
         THEN {weight_vectors[Len(weight_vectors) - 1]} ELSE {})

Next ==
    \/ \E task \in Tasks : EnterSetNewTask(task)
    \/ \E how \in Outcomes : ExitSetNewTask(how)
    \/ \E fe_arg \in ExplicitExtractors \cup {None}, wv_arg \in ExplicitHeads \cup {None} :
          EnterUsePrevious(fe_arg, wv_arg)
    \/ \E how \in Outcomes : ExitUsePrevious(how)
    \/ TrainStep

\* The scoped operations together with the prototype classifier, and with a
\* caller-built head among the arguments of use_previous_model; no training.
NextInfer ==
    \/ \E task \in Tasks : EnterSetNewTask(task)
    \/ \E how \in Outcomes : ExitSetNewTask(how)
    \/ \E fe_arg \in ExplicitExtractors \cup {None},
          wv_arg \in ExplicitHeads \cup {None, ExternalHead} :
          EnterUsePrevious(fe_arg, wv_arg)
    \/ \E how \in Outcomes : ExitUsePrevious(how)
    \/ SetExemplarMeans
    \/ \E f \in UnitQueries : GetPreds(f)

----------------------------------------------------------------------------
\* get_cifar100_tasks (src/utils/data/cifar100.py)

\* The slice length written in get_cifar100_tasks.
ChunkSize == 10
\* The literal returned for fixed_tasks=True: FixedGroups groups of FixedGroupSize
\* class names, the CIFAR-100 names in alphabetical order (class k is the k-th name).
FixedGroups == 10
FixedGroupSize == 10
\* Python's s[a:b] for 0 <= a <= b.
PySlice(s, a, b) ==
    LET e == Min(b, Len(s)) IN IF a >= e THEN <<>> ELSE SubSeq(s, a + 1, e)

\* The fixed grouping is cut from the list passed in, in the order it has.
FixedTaskList_FromNames ==
    [g \in 1..FixedGroups |->
        PySlice(cls_names, (g - 1) * FixedGroupSize, g * FixedGroupSize)]

FixedTaskList ==
    [g \in 1..FixedGroups |-> [k \in 1..FixedGroupSize |-> (g - 1) * FixedGroupSize + k]]

\* No fixed_tasks=True call was made yet.
NoFixedCall == [call |-> 0, groups |-> <<>>]

\* The orders random.shuffle can leave the list in.
Shuffles(s) ==
    {[i \in 1..Len(s) |-> s[p[i]]] :
        p \in {q \in [1..Len(s) -> 1..Len(s)] : NoDuplicates(q)}}

\* The list comprehension of get_cifar100_tasks over the shuffled list.
RandomGroups(names, n) ==
    [i \in 1..(Len(names) \div n) |-> PySlice(names, (i - 1) * ChunkSize, i * ChunkSize)]

InitTasks ==
    /\ cls_names \in {[i \in 1..c |-> i] : c \in 1..MaxUniverse}
    /\ task_num \in 0..MaxTaskNum
    /\ fixed_tasks \in BOOLEAN
    /\ tasks = <<>>
    /\ gen_status = "call"
    /\ calls = 0
    /\ first_fixed = NoFixedCall

\* One call get_cifar100_tasks(cls_names, task_num, fixed_tasks).
GetCifar100Tasks ==
    /\ gen_status = "call"
    /\ calls' = calls + 1
    /\ first_fixed' = IF fixed_tasks /\ first_fixed = NoFixedCall
                      THEN [call |-> calls + 1, groups |-> FixedTaskList]
                      ELSE first_fixed
    /\ IF fixed_tasks
       THEN /\ tasks' = FixedTaskList
            /\ gen_status' = "returned"
            /\ UNCHANGED cls_names
       ELSE /\ cls_names' \in Shuffles(cls_names)
            /\ IF task_num = 0
               THEN \* len(cls_names) // task_num: ZeroDivisionError
                    /\ gen_status' = "raised"
                    /\ UNCHANGED tasks
               ELSE /\ tasks' = RandomGroups(cls_names', task_num)
                    /\ gen_status' = "returned"
    /\ UNCHANGED <<task_num, fixed_tasks>>
    /\ UNCHANGED <<icarlVars, mainVars>>

Reverse(s) == [i \in 1..Len(s) |-> s[Len(s) + 1 - i]]

\* After a call has ended the caller calls again: with the list as the last
\* call left it or reversed, any task_num and either mode.
CallAgain ==
    /\ gen_status \in {"returned", "raised"}
    /\ calls < MaxCalls
    /\ cls_names' \in {cls_names, Reverse(cls_names)}
    /\ task_num' \in 0..MaxTaskNum
    /\ fixed_tasks' \in BOOLEAN
    /\ tasks' = <<>>
    /\ gen_status' = "call"
    /\ UNCHANGED <<calls, first_fixed>>
    /\ UNCHANGED <<icarlVars, mainVars>>

NextTasks ==
    \/ GetCifar100Tasks
    \/ CallAgain

----------------------------------------------------------------------------
\* Metrics Engine (utils.helper; not in src/): spec.md section 4.5. A value
\* num/den is the pair <<num, den>>; m is an n x n matrix indexed from 0.

RECURSIVE FSum(_, _, _)
\* f[lo] + ... + f[hi]
FSum(f, lo, hi) == IF lo > hi THEN 0 ELSE f[lo] + FSum(f, lo + 1, hi)

RECURSIVE Fact(_)
Fact(n) == IF n <= 1 THEN 1 ELSE n * Fact(n - 1)

MaxOf(S) == CHOOSE x \in S : \A y \in S : y <= x

get_backward_transfer(m, n) ==
    <<FSum([i \in 0..(n - 2) |-> m[i][n - 1] - m[i][i]], 0, n - 2), n - 1>>

get_forgetting_rate(m, n) ==
    <<FSum([i \in 0..(n - 2) |-> MaxOf({m[i][j] : j \in i..(n - 2)}) - m[i][n - 1]],
           0, n - 2), n - 1>>

get_last_setp_accuracy(m, n) ==
    <<FSum([i \in 0..(n - 1) |-> m[i][n - 1]], 0, n - 1), n>>

get_average_incremental_accuracy(m, n) ==
    <<FSum([j \in 0..(n - 1) |->
               (Fact(n) \div (j + 1)) * FSum([i \in 0..j |-> m[i][j]], 0, j)],
           0, n - 1), Fact(n) * n>>

----------------------------------------------------------------------------
\* main.py: the task learner, the evaluator and the loop of continual_learning

\* The keys task_learner writes into hparams_dict.
HParamKeys == {"num_epoch", "optim", "lr", "momentum", "weight_decay", "dampening"}

\* The values written: num_epoch, the optimizer's class name and its defaults.
HParams ==
    [k \in HParamKeys |->
        CASE k = "num_epoch" -> "50"
          [] k = "optim" -> "SGD"
          [] k = "lr" -> "1e-3"
          [] k = "momentum" -> "0.9"
          [] k = "weight_decay" -> "0"
          [] k = "dampening" -> "0"]

\* The increment of num_task_learned is left out.
NumTaskLearnedAfter_Same(n) == n

\* num_task_learned += 1
NumTaskLearnedAfter(n) == n + 1

\* if num_task_learned == 0
LogsHparams(n) == n = 0

\* np.zeros((task_num, task_num))
ZeroMatrix(n) == [i \in 0..(n - 1) |-> [j \in 0..(n - 1) |-> 0]]

\* The evaluator's loop over learned_task_loaders: the assignment
\* cl_matrix[i, task_id] = test_epoch(...) is commented out, the loop only logs.
TesterLoop(m, k, acc) == m

\* cl_matrix[:task_id+1, :task_id+1]
LeadingSub(m, n) == [i \in 0..(n - 1) |-> [j \in 0..(n - 1) |-> m[i][j]]]

\* if task_id >= 1: the four metrics are computed and bound to bwt, forget, last, avg
ComputesMetrics(k) == k >= 1

\* The return value names the dict for every task_id.
ReturnsMetrics_Always(k) == TRUE

\* {...} if task_id >= 1 else None
ReturnsMetrics(k) == k >= 1

MetricNames == {"BWT", "Forgetting Rate", "Last Step Acc", "Average Acc"}

\* {"BWT": bwt, "Forgetting Rate": forget, "Last Step Acc": last, "Average Acc": avg}
MetricsOf(m, n) ==
    [name \in MetricNames |->
        CASE name = "BWT" -> get_backward_transfer(m, n)
          [] name = "Forgetting Rate" -> get_forgetting_rate(m, n)
          [] name = "Last Step Acc" -> get_last_setp_accuracy(m, n)
          [] name = "Average Acc" -> get_average_incremental_accuracy(m, n)]

\* No metrics yet (the dict is empty).
NoMetrics == [name \in {} |-> <<0, 1>>]

\* The evaluator's return value (matrix, metrics or None); raised: it raised instead.
Ret(called, k, matrix, is_none, metrics, raised) ==
    [called |-> called, task_id |-> k, matrix |-> matrix, metrics_none |-> is_none,
     metrics |-> metrics, raised |-> raised]

\* continual_learning_ability_tester(task_id, ...), with acc[i] what test_epoch
\* measures on task i's test loader at this step.
TesterCall(m, k, acc) ==
    LET m1 == TesterLoop(m, k, acc)
        sub == LeadingSub(m1, k + 1)
    IN IF ReturnsMetrics(k)
       THEN IF ComputesMetrics(k)
            THEN Ret(TRUE, k, m1, FALSE, MetricsOf(sub, k + 1), FALSE)
            ELSE \* bwt is not bound: UnboundLocalError
                 Ret(TRUE, k, m1, TRUE, NoMetrics, TRUE)
       ELSE Ret(TRUE, k, m1, TRUE, NoMetrics, FALSE)

InitMain ==
    /\ n_tasks \in 1..MaxTaskNum
    /\ pc = "next"
    /\ task_id = 0
    /\ learned_tasks = <<>>
    /\ num_task_learned = 0
    /\ hparams_dict = [k \in {} |-> ""]
    /\ hparams_writes = <<>>
    /\ learner_calls = 0
    /\ cl_matrix = ZeroMatrix(n_tasks)
    /\ test_acc = <<>>
    /\ ret = Ret(FALSE, 0, <<>>, TRUE, NoMetrics, FALSE)
    /\ metrics_dict = NoMetrics
    /\ sink_failed = FALSE

\* for task_id, current_task, ... in dataset_getter: with model.set_new_task(current_task):
LoopEnterScope ==
    /\ pc = "next"
    /\ task_id < n_tasks
    /\ pc' = "in_scope"
    /\ UNCHANGED <<task_id, n_tasks, learned_tasks, num_task_learned, hparams_dict,
                   hparams_writes, learner_calls, cl_matrix, test_acc, ret, metrics_dict>>
    /\ UNCHANGED sink_failed
    /\ UNCHANGED <<icarlVars, genVars>>

\* model = task_learner(task_id, ...): a call that returns.
TaskLearner ==
    /\ pc = "in_scope"
    /\ learner_calls' = learner_calls + 1
    /\ IF LogsHparams(num_task_learned)
       THEN /\ hparams_dict' = HParams
            /\ hparams_writes' = Append(hparams_writes, learner_calls')
       ELSE UNCHANGED <<hparams_dict, hparams_writes>>
    /\ num_task_learned' = NumTaskLearnedAfter(num_task_learned)
    /\ pc' = "trained"
    /\ UNCHANGED <<task_id, n_tasks, learned_tasks, cl_matrix, test_acc, ret, metrics_dict>>
    /\ UNCHANGED sink_failed
    /\ UNCHANGED <<icarlVars, genVars>>

\* A task_learner call whose training loop raises: the exception leaves the with
\* block and continual_learning.
TaskLearnerRaises ==
    /\ pc = "in_scope"
    /\ learner_calls' = learner_calls + 1
    /\ pc' = "aborted"
    /\ UNCHANGED <<task_id, n_tasks, learned_tasks, num_task_learned, hparams_dict,
                   hparams_writes, cl_matrix, test_acc, ret, metrics_dict>>
    /\ UNCHANGED sink_failed
    /\ UNCHANGED <<icarlVars, genVars>>

\* The with block ends; learned_tasks.append(current_task),
\* learned_task_loaders.append(test_loader).
LoopExitScope ==
    /\ pc = "trained"
    /\ learned_tasks' = Append(learned_tasks, task_id)
    /\ pc' = "committed"
    /\ UNCHANGED <<task_id, n_tasks, num_task_learned, hparams_dict, hparams_writes,
                   learner_calls, cl_matrix, test_acc, ret, metrics_dict>>
    /\ UNCHANGED sink_failed
    /\ UNCHANGED <<icarlVars, genVars>>

\* cl_matrix, metrics = continual_learning_ability_tester(...);
\* if metrics is not None: metrics_dict.update(metrics); then the next iteration.
\* The call stands at position at of the loop body.
EvaluatorStep(at) ==
    /\ pc = at
    /\ test_acc' \in [0..(Len(learned_tasks) - 1) -> 0..MaxAcc]
    /\ ret' = TesterCall(cl_matrix, task_id, test_acc')
    /\ cl_matrix' = ret'.matrix
    /\ IF ret'.raised
       THEN /\ pc' = "aborted"
            /\ UNCHANGED <<task_id, metrics_dict>>
       ELSE /\ metrics_dict' = IF ret'.metrics_none THEN metrics_dict ELSE ret'.metrics
            /\ task_id' = task_id + 1
            /\ pc' = "next"
    /\ UNCHANGED <<n_tasks, learned_tasks, num_task_learned, hparams_dict,
                   hparams_writes, learner_calls>>
    /\ UNCHANGED sink_failed
    /\ UNCHANGED <<icarlVars, genVars>>

\* The evaluator call is indented into the with block: it runs before the
\* scope is left and before learned_tasks.append.
Evaluate_InsideScope == EvaluatorStep("trained")

\* The evaluator call follows the with block and the two appends.
Evaluate == EvaluatorStep("committed")

\* The loop is exhausted: the closing log lines.
Finish ==
    /\ pc = "next"
    /\ task_id = n_tasks
    /\ pc' = "done"
    /\ UNCHANGED <<task_id, n_tasks, learned_tasks, num_task_learned, hparams_dict,
                   hparams_writes, learner_calls, cl_matrix, test_acc, ret, metrics_dict>>
    /\ UNCHANGED sink_failed
    /\ UNCHANGED <<icarlVars, genVars>>

\* A task_learner call in which logger.info or writer.add_scalar raises: nothing
\* catches the exception, it leaves task_learner, the with block and
\* continual_learning.
TaskLearnerSinkRaises ==
    /\ pc = "in_scope"
    /\ learner_calls' = learner_calls + 1
    /\ sink_failed' = TRUE
    /\ pc' = "aborted"
    /\ UNCHANGED <<task_id, n_tasks, learned_tasks, num_task_learned, hparams_dict,
                   hparams_writes, cl_matrix, test_acc, ret, metrics_dict>>
    /\ UNCHANGED <<icarlVars, genVars>>

\* An evaluator call in which logger.info, writer.add_scalar or
\* writer.add_figure raises: the evaluator returns nothing and the exception
\* leaves continual_learning.
EvaluateSinkRaises ==
    /\ pc = "committed"
    /\ test_acc' \in [0..(Len(learned_tasks) - 1) -> 0..MaxAcc]
    /\ ret' = Ret(TRUE, task_id, TesterLoop(cl_matrix, task_id, test_acc'), TRUE,
                  NoMetrics, TRUE)
    /\ sink_failed' = TRUE
    /\ pc' = "aborted"
    /\ UNCHANGED <<task_id, n_tasks, learned_tasks, num_task_learned, hparams_dict,
                   hparams_writes, learner_calls, cl_matrix, metrics_dict>>
    /\ UNCHANGED <<icarlVars, genVars>>

NextMain ==
    \/ LoopEnterScope
    \/ TaskLearner
    \/ TaskLearnerRaises
    \/ LoopExitScope
    \/ Evaluate
    \/ Finish

\* The loop with a metrics/logging sink that can fail.
NextSinks ==
    \/ LoopEnterScope
    \/ TaskLearner
    \/ TaskLearnerRaises
    \/ TaskLearnerSinkRaises
    \/ LoopExitScope
    \/ Evaluate
    \/ EvaluateSinkRaises
    \/ Finish

----------------------------------------------------------------------------
\* The specifications. The parts of the state a specification does not exercise
\* stay as constructed.
TasksIdle ==
    /\ cls_names = <<>>
    /\ task_num = 0
    /\ fixed_tasks = FALSE
    /\ tasks = <<>>
    /\ gen_status = "idle"
    /\ calls = 0
    /\ first_fixed = NoFixedCall

MainIdle ==
    /\ n_tasks = 0
    /\ pc = "idle"
    /\ task_id = 0
    /\ learned_tasks = <<>>
    /\ num_task_learned = 0
    /\ hparams_dict = [k \in {} |-> ""]
    /\ hparams_writes = <<>>
    /\ learner_calls = 0
    /\ cl_matrix = <<>>
    /\ test_acc = <<>>
    /\ ret = Ret(FALSE, 0, <<>>, TRUE, NoMetrics, FALSE)
    /\ metrics_dict = NoMetrics
    /\ sink_failed = FALSE

Init == InitICaRL /\ TasksIdle /\ MainIdle

Spec == Init /\ [][Next]_vars

SpecInfer == Init /\ [][NextInfer]_vars

InitSpecPreds == InitPreds /\ TasksIdle /\ MainIdle
SpecPreds == InitSpecPreds /\ [][NextPreds]_vars

InitSpecTasks == InitTasks /\ InitICaRL /\ MainIdle

SpecTasks == InitSpecTasks /\ [][NextTasks]_vars

InitSpecMain == InitMain /\ InitICaRL /\ TasksIdle

SpecSinks == InitSpecMain /\ [][NextSinks]_vars

SpecMain == InitSpecMain /\ [][NextMain]_vars

----------------------------------------------------------------------------
\* Claims about iCaRL, checked under Spec.

PairwiseDisjoint(ts) ==
    \A i, j \in 1..Len(ts) : i # j => Range(ts[i]) \cap Range(ts[j]) = {}

\* C1: when a use_previous_model scope has ended (body finished, body raised, or
\* the swap itself raised), the active feature extractor and the active head are
\* the objects that were active immediately before the scope was entered.
C1_UsePreviousRestores ==
    last.op = "exit_prev" =>
        /\ feature_extractor = last.fe
        /\ current_weight_vectors = last.wv

\* A scope that swapped in the snapshot and an older head has ended by an exception.
C1_Witness ==
    /\ last.op = "exit_prev"
    /\ last.how = "raised"
    /\ Len(weight_vectors) >= 2
    /\ previous_feature_extractor # None
    /\ feature_extractor # previous_feature_extractor

\* C2: when a set_new_task scope ends, normally or by an exception of its body,
\* learned_classes is its value at scope entry followed by the task's classes,
\* once; with pairwise disjoint tasks learned_classes holds no class twice.
C2_CommitOnce ==
    /\ last.op = "exit_task" => learned_classes = last.learned \o last.task
    /\ PairwiseDisjoint(entered) => NoDuplicates(learned_classes)

\* The second task's scope has ended by an exception.
C2_Witness ==
    /\ last.op = "exit_task"
    /\ last.how = "raised"
    /\ Len(last.learned) > 0
    /\ PairwiseDisjoint(entered)

\* C3: immediately after set_new_task was entered while an earlier head existed,
\* the new head's leading rows (one per previously learned class) are the rows
\* the previous head had at entry, and the previous head still has those rows.
C3_WarmStart ==
    (last.op = "enter_task" /\ last.wv # None) =>
        /\ last.how = "normal"
        /\ SubSeq(headRows[current_weight_vectors], 1, Len(last.learned)) = last.rows
        /\ headRows[last.wv] = last.rows

\* A second head was created from a trained first head of two rows.
C3_Witness ==
    /\ last.op = "enter_task"
    /\ last.wv # None
    /\ Len(last.rows) = 2
    /\ last.rows # FreshRows(2, 1)
    /\ Len(headRows[current_weight_vectors]) > 2

\* C4: the i-th entry of weight_vectors has as many outputs as there are classes
\* in the tasks t1..ti entered so far.
C4_HeadSizes ==
    /\ Len(weight_vectors) = Len(entered)
    /\ \A i \in 1..Len(weight_vectors) :
          Len(headRows[weight_vectors[i]]) = SumLen(entered, i)

\* Two scopes have run one after another over tasks of different sizes.
C4_Witness ==
    /\ Len(weight_vectors) = 2
    /\ scopes = <<>>
    /\ Len(entered[1]) # Len(entered[2])
    /\ Len(learned_classes) = 3

\* C5: the snapshot taken on entry to set_new_task keeps the parameters the live
\* extractor had at entry, whatever training does to the live extractor, until
\* the next set_new_task (the snapshot object itself not being the one trained).
C5_SnapshotIndependent ==
    (previous_feature_extractor # None /\ ~snapDirect) =>
        feParams[previous_feature_extractor] = snapAtEntry

\* The live extractor was trained inside the scope after the snapshot was taken.
C5_Witness ==
    /\ previous_feature_extractor # None
    /\ ~snapDirect
    /\ HasTaskScope
    /\ ~HasPrevScope
    /\ feParams[feature_extractor] # snapAtEntry

----------------------------------------------------------------------------
\* Claims about get_cifar100_tasks, checked under SpecTasks.

\* The groups gs are n groups of k classes each, pairwise disjoint, covering S.
IsPartition(gs, n, k, S) ==
    /\ Len(gs) = n
    /\ \A i \in 1..Len(gs) : Len(gs[i]) = k /\ NoDuplicates(gs[i])
    /\ PairwiseDisjoint(gs)
    /\ UNION {Range(gs[i]) : i \in 1..Len(gs)} = S

\* C6: in randomized mode, for C classes and T tasks with C % T = 0, the result
\* is exactly T groups of C/T classes each, pairwise disjoint, covering all classes.
C6_RandomPartition ==
    (/\ gen_status = "returned"
     /\ ~fixed_tasks
     /\ task_num # 0
     /\ Len(cls_names) % task_num = 0) =>
        IsPartition(tasks, task_num, Len(cls_names) \div task_num, Range(cls_names))

\* C7: for C classes and T tasks with C % T # 0, the call fails with an error
\* and returns no partition.
C7_RejectsIndivisible ==
    (/\ gen_status # "call"
     /\ task_num # 0
     /\ Len(cls_names) % task_num # 0) =>
        gen_status = "raised"

----------------------------------------------------------------------------
\* Claims about main.py, checked under SpecMain.

\* C8: when the evaluator has returned for task k, cl_matrix[i, k] is the
\* accuracy measured for task i at this step, for every i in 0..k.
C8_MatrixHoldsAccuracy ==
    (ret.called /\ ~ret.raised) =>
        \A i \in 0..ret.task_id : cl_matrix[i][ret.task_id] = test_acc[i]

LearnerReturned == task_id > 0 \/ pc \in {"trained", "committed"}

\* C10: over the calls of one task learner, hparams_dict is written once, by the
\* first call, and by no later call.
C10_HparamsOnce ==
    /\ hparams_writes \in {<<>>, <<1>>}
    /\ LearnerReturned => (hparams_writes = <<1>> /\ hparams_dict = HParams)
    /\ hparams_writes = <<>> => DOMAIN hparams_dict = {}

\* The third call of the task learner has returned.
C10_Witness ==
    /\ learner_calls = 3
    /\ pc = "trained"
    /\ hparams_writes = <<1>>

----------------------------------------------------------------------------
\* Claims about get_preds on a filled exemplar_means, checked under SpecPreds.

\* The prototype registered i-th.
Prototype(i) == exemplar_means[i].mean

\* The query of the last get_preds call divided by its Euclidean norm.
UnitQuery == [vec |-> last.query, sq |-> Dot(last.query, last.query)]

\* C11: for a query with a non-zero embedding and a non-empty exemplar_means,
\* get_preds returns the index, in registration order, of a prototype at minimal
\* Euclidean distance from the L2-normalised embedding, and of the prototypes
\* at that distance the one with the lowest index.
C11_NearestPrototype ==
    (/\ last.op = "get_preds"
     /\ exemplar_means # <<>>
     /\ Dot(last.query, last.query) # 0) =>
        /\ last.how = "normal"
        /\ last.out + 1 \in 1..Len(exemplar_means)
        /\ \A j \in 1..Len(exemplar_means) :
              ~NormLess(UnitQuery, Prototype(j), Prototype(last.out + 1))
        /\ \A j \in 1..last.out :
              NormLess(UnitQuery, Prototype(last.out + 1), Prototype(j))

\* get_preds returned a prototype although the different prototype registered
\* right after it is at the same distance from the normalised query.
C11_Witness ==
    /\ last.op = "get_preds"
    /\ last.how = "normal"
    /\ Len(exemplar_means) >= 2
    /\ last.out = Len(exemplar_means) - 2
    /\ Prototype(last.out + 1) # Prototype(last.out + 2)
    /\ ~NormLess(UnitQuery, Prototype(last.out + 2), Prototype(last.out + 1))
    /\ ~NormLess(UnitQuery, Prototype(last.out + 1), Prototype(last.out + 2))
    /\ last.query[1] # last.query[2]

----------------------------------------------------------------------------
\* Claims about the iCaRL model with its prototype classifier, checked under
\* SpecInfer.

\* C12: a get_preds call made while exemplar_means is empty raises and returns
\* no prediction, and leaves exemplar_means, learned_classes, weight_vectors,
\* the active extractor and the active head as they were.
C12_EmptyMeansFails ==
    [][(last'.op = "get_preds" /\ exemplar_means = <<>>) =>
          /\ last'.how = "raised"
          /\ last'.out = NoPred
          /\ UNCHANGED <<exemplar_means, learned_classes, weight_vectors,
                         feature_extractor, current_weight_vectors, feParams,
                         headRows>>]_vars

\* get_preds raised on a model that has begun a task and has an extractor and a
\* head active, but no prototype.
C12_Witness ==
    /\ last.op = "get_preds"
    /\ last.how = "raised"
    /\ exemplar_means = <<>>
    /\ Len(weight_vectors) >= 1
    /\ feature_extractor # None
    /\ current_weight_vectors \in Range(weight_vectors)

\* C13: before any task has been begun (weight_vectors empty, no snapshot), a
\* use_previous_model call with at least one argument left to its default never
\* reaches its yield: no such scope is ever entered.
C13_FailsBeforeAnyTask ==
    ~(/\ last.op = "enter_prev"
      /\ HasPrevScope
      /\ weight_vectors = <<>>
      /\ previous_feature_extractor = None
      /\ (last.fe = None \/ last.wv = None))

----------------------------------------------------------------------------
\* Claim about main.py with a failing sink, checked under SpecSinks.

\* C14: a writer or logger call that raises during task learning or evaluation
\* does not abort the run.
C14_SinkFailureNonFatal == sink_failed => pc # "aborted"

----------------------------------------------------------------------------
\* Claims about fixed_tasks=True, checked under SpecTasks.

\* C15: every fixed_tasks=True call returns the grouping the first such call
\* returned: the same groups in the same order with the same class order,
\* whatever list order and task_num it is given and whatever calls came before.
C15_FixedModeRepeats ==
    (gen_status = "returned" /\ fixed_tasks /\ first_fixed # NoFixedCall) =>
        tasks = first_fixed.groups

\* A fixed_tasks=True call has returned after an earlier one, the first call
\* of all; the list it was given is no longer in the order of that first call.
C15_Witness ==
    /\ gen_status = "returned"
    /\ fixed_tasks
    /\ calls >= 2
    /\ first_fixed.call = 1
    /\ cls_names # [i \in 1..Len(cls_names) |-> i]

\* C16: a fixed_tasks=True call for C classes and T tasks with C % T = 0 returns
\* exactly T groups, pairwise disjoint, of C/T classes each.
C16_FixedPartition ==
    (/\ gen_status = "returned"
     /\ fixed_tasks
     /\ task_num # 0
     /\ Len(cls_names) % task_num = 0) =>
        /\ Len(tasks) = task_num
        /\ \A i \in 1..Len(tasks) : Len(tasks[i]) = Len(cls_names) \div task_num
        /\ PairwiseDisjoint(tasks)

----------------------------------------------------------------------------
\* Claims about the order of the loop of main.py, checked under SpecMain.

\* C17: the scopes of the tasks are left in the order 0, 1, 2, ...; while task
\* k is inside its scope (about to be trained, or trained) the scopes of tasks
\* 0..k-1 and no others have been left, k task_learner calls at most have been
\* started before its own, and for k >= 1 the evaluator has returned for task
\* k-1; the evaluator has been called only for tasks whose scope has been left.
C17_TasksInOrder ==
    /\ learned_tasks = [i \in 1..Len(learned_tasks) |-> i - 1]
    /\ pc \in {"in_scope", "trained"} =>
          /\ Len(learned_tasks) = task_id
          /\ learner_calls = task_id + (IF pc = "trained" THEN 1 ELSE 0)
          /\ task_id >= 1 =>
                (ret.called /\ ~ret.raised /\ ret.task_id = task_id - 1)
    /\ ret.called => ret.task_id < Len(learned_tasks)

\* The third task has been trained inside its scope, after the evaluator
\* returned for the second.
C17_Witness ==
    /\ pc = "trained"
    /\ task_id = 2
    /\ learner_calls = 3
    /\ ret.called
    /\ ret.task_id = 1

----------------------------------------------------------------------------
\* Claims about the lists of the iCaRL model, checked under Spec.

RECURSIVE Flatten(_, _)
\* The classes of the first n tasks of ts, in order.
Flatten(ts, n) == IF n = 0 THEN <<>> ELSE Flatten(ts, n - 1) \o ts[n]

\* The set_new_task scopes that have ended.
Committed == Len(entered) - (IF HasTaskScope THEN 1 ELSE 0)

\* C18: learned_classes is at all times the classes of the tasks whose
\* set_new_task scope has ended, in order: it changes at the end of a scope and
\* nowhere else (not on entering set_new_task, not by training inside the
\* scope, not on entering or leaving use_previous_model), and while task k is
\* trained inside its scope it holds the classes of tasks 0..k-1.
C18_LearnedOnlyAtCommit ==
    learned_classes = Flatten(entered, Committed)

\* The second task has just been trained inside its scope; learned_classes
\* holds the first task's classes.
C18_Witness ==
    /\ last.op = "train"
    /\ HasTaskScope
    /\ Len(entered) = 2
    /\ learned_classes = entered[1]

\* The heads of a list wvs that a newer head has superseded: all but the last.
Superseded(wvs) == {wvs[i] : i \in 1..(Len(wvs) - 1)}

----------------------------------------------------------------------------
\* Claim about the frame of use_previous_model, checked under SpecInfer.

\* C20: the steps of a use_previous_model scope (its entry, its end after the
\* body finished or raised, a swap that raised) leave weight_vectors and the
\* heads in it, learned_classes, exemplar_means, current_task and the snapshot
\* previous_feature_extractor with its parameters as they were.
C20_UsePreviousFrame ==
    [][last'.op \in {"enter_prev", "exit_prev"} =>
          UNCHANGED <<weight_vectors, headRows, learned_classes, exemplar_means,
                      current_task, previous_feature_extractor, feParams>>]_vars

\* A scope entered after two heads, a snapshot and prototypes existed has ended
\* by an exception of its body.
C20_Witness ==
    /\ last.op = "exit_prev"
    /\ last.how = "raised"
    /\ Len(weight_vectors) >= 2
    /\ exemplar_means # <<>>
    /\ learned_classes # <<>>
    /\ current_task # NoTask
    /\ previous_feature_extractor # None

====
